---- MODULE Spec2Model ----
(***************************************************************************)
(* Model of cargo-spellcheck's chunk/span mapping (CheckableChunk::        *)
(* find_spans, equality and hash, src/documentation/chunk.rs), of the      *)
(* quirk chain (Quirks, src/quirks.rs), of the Hunspell checker            *)
(* (src/checker/hunspell.rs) and of the exit values and the signal         *)
(* handler of the process (src/main.rs).                                   *)
(*                                                                         *)
(* Text is a sequence of one-character strings.  A Range is a record       *)
(* [start, end] over character indices (half open, 0-based); a LineColumn  *)
(* is [line, column] (1-based line, 0-based column); a Span is             *)
(* [start, end] of LineColumns.                                            *)
(***************************************************************************)
EXTENDS Integers, Sequences, FiniteSets, TLC

(***************************************************************************)
(* Bounds of the model.                                                    *)
(***************************************************************************)
\* literals (fragments) per chunk
MaxFrags == 2
\* characters per literal
MaxLen == 3
\* characters of all literals of a chunk
MaxContent == 5
\* how far past the end of the content a query range may reach
MaxOver == 1
\* characters per token handed to check_quirk
MaxTokenLen == 4
\* names in the configured quirk list
MaxNames == 2
\* names in a list handed to Quirks::quirks on its own
MaxListNames == 3
\* origins of a Documentation
MaxOrigins == 2
\* chunks of one origin
MaxChunks == 2
\* words of all chunks of a Documentation
MaxWords == 2
\* entries of the backend's reply to suggest
MaxCands == 2
\* dictionary search directories of a HunspellConfig
MaxDirs == 2
\* extra dictionaries of a HunspellConfig
MaxExtra == 1
\* characters of all literals of a chunk that is compared with another
MaxEqContent == 1
\* mistakes a run may count
MaxMistakes == 2

(***************************************************************************)
(* Characters.                                                             *)
(***************************************************************************)
NL == "\n"
SPACE == " "
SLASH == "/"
\* a character of a doc comment that is not a newline
CH == "c"

\* column of the first text character behind `/// `, find_spans_multiline
TRIPLE_SLASH_SPACE == 4

\* ExitCode::Signal as a u8, and the value the signal handler exits with
EXIT_SIGNAL == 130
\* the exit value of a main that returns Err
EXIT_FAILURE == 1
\* a value of --code, of the test of the argument parser
CODE_OF_TEST == 11

VARIABLES
    source,         \* the original file: a sequence of lines
    chunk,          \* the CheckableChunk: [content, source_mapping]
    range,          \* the Range last passed to find_spans
    spans,          \* the IndexMap<Range, Span> last returned by find_spans
    asserts,        \* the debug assertions evaluated by that call
    stage,          \* "none": no chunk yet, "chunk": built, "spans": resolved
    quirks,         \* Quirks.quirks: the configured Vec<Quirk>
    text,           \* argument of the running check_quirk call
    changed_text,   \* local of check_quirk
    found_one,      \* local of check_quirk
    iterations,     \* number of loop iterations of the running call
    retval,         \* value returned by check_quirk
    rechecked,      \* the running call was given the previous call's output
    pc,             \* position of the quirk chain: "new", "idle", "loop", "done"
    cfg_names,      \* the names last handed to Quirks::quirks
    cfg_quirks,     \* the Vec<Quirk> it returned
    docu,           \* the Documentation: per origin, its chunks
    quirks_opt,     \* HunspellChecker::check's quirks: <<>> for None, <<qs>> for Some
    config,         \* its HunspellConfig, with what the file system holds at each path
    suggested,      \* what the backend's suggest answers
    hunspell,       \* the words the Hunspell context knows
    todo,           \* the tokens the fold has not come to yet
    token_no,       \* number of tokens the fold has examined
    acc_set,            \* the SuggestionSet of the fold
    result,         \* what the call returned
    hpc,            \* "docu", "entered", "fold", "returned"
    lhs,            \* the CheckableChunk on the left of ==
    rhs,            \* the CheckableChunk on the right of ==
    eq,             \* what lhs == rhs gave
    hashed,         \* what the two chunks fed to their hashers
    epc,            \* "none", "units", "compared"
    args,           \* Args: the command and flag_code
    mpc,            \* the main thread: "start", "parsed", "spawned", "returned"
    ret,            \* what run returned
    handler,        \* the signal handler thread
    received,       \* the termination signal the process received, if any
    restore,        \* how ScopedRaw::restore_terminal went, if it was called
    exited          \* how the process ended, and its exit value

chunkVars == <<source, chunk, range, spans, asserts, stage>>
quirkVars == <<quirks, text, changed_text, found_one, iterations, retval, rechecked, pc>>
listVars == <<cfg_names, cfg_quirks>>
\* what the operations on one part leave alone
hunspellVars == <<docu, quirks_opt, config, suggested, hunspell, todo, token_no, acc_set,
                  result, hpc>>
eqVars == <<lhs, rhs, eq, hashed, epc>>
mainVars == <<args, mpc, ret, handler, received, restore, exited>>
exceptChunk == <<quirkVars, listVars, hunspellVars, eqVars, mainVars>>
exceptQuirk == <<chunkVars, listVars, hunspellVars, eqVars, mainVars>>
exceptList == <<chunkVars, quirkVars, hunspellVars, eqVars, mainVars>>
exceptHunspell == <<chunkVars, quirkVars, listVars, eqVars, mainVars>>
exceptEq == <<chunkVars, quirkVars, listVars, hunspellVars, mainVars>>
exceptMain == <<chunkVars, quirkVars, listVars, hunspellVars, eqVars>>
vars == <<chunkVars, quirkVars, listVars, hunspellVars, eqVars, mainVars>>

(***************************************************************************)
(* Position primitives.                                                    *)
(***************************************************************************)
LineColumn(l, c) == [line |-> l, column |-> c]

Span(s, e) == [start |-> s, end |-> e]

Range(s, e) == [start |-> s, end |-> e]

\* std::ops::Range<usize>::len(): an inverted range is empty
RangeLen(r) == IF r.end > r.start THEN r.end - r.start ELSE 0

Min(a, b) == IF a < b THEN a ELSE b

Max(a, b) == IF a > b THEN a ELSE b

\* Span::one_line_len
OneLineLen(span) ==
    IF span.start.line = span.end.line
    THEN <<span.end.column - span.start.column>>
    ELSE <<>>

\* util::sub_chars: the characters of s at the (0-based, half open) range
SubChars(s, r) ==
    IF r.start >= Len(s) \/ r.end <= r.start THEN <<>>
    ELSE SubSeq(s, r.start + 1, Min(r.end, Len(s)))

\* the scan closure of find_spans: the position behind character c
Advance(state, c) ==
    IF c = NL THEN LineColumn(state.line + 1, 0)
    ELSE LineColumn(state.line, state.column + 1)

(***************************************************************************)
(* Construction of a chunk from the literals of a source file.  A literal  *)
(* is given by its shape, a sequence over {CH, NL}; the k-th visible       *)
(* character of the file is the k-th letter, so that every visible         *)
(* character of a chunk differs from every other one.                      *)
(***************************************************************************)
Letters == <<"x", "y", "z", "s", "t", "u", "v", "w",
             "k", "l", "m", "n", "o", "p", "q", "r">>

Shapes == UNION {[1..n -> {CH, NL}] : n \in 0..MaxLen}

RECURSIVE TotalLen(_)
TotalLen(shapes) ==
    IF shapes = <<>> THEN 0 ELSE Len(Head(shapes)) + TotalLen(Tail(shapes))

LiteralSets ==
    {shapes \in UNION {[1..n -> Shapes] : n \in 1..MaxFrags} :
        TotalLen(shapes) <= MaxContent}

\* columns at which the text of a literal starts: 0 and behind `/// `
Columns == {0, TRIPLE_SLASH_SPACE}

Visible(sh) == Cardinality({i \in DOMAIN sh : sh[i] # NL})

RECURSIVE Letterize(_, _)
\* the text of a literal of shape sh, k letters being used already
Letterize(sh, k) ==
    IF sh = <<>> THEN <<>>
    ELSE IF Head(sh) = NL THEN <<NL>> \o Letterize(Tail(sh), k)
    ELSE <<Letters[k + 1]>> \o Letterize(Tail(sh), k + 1)

RECURSIVE Split(_)
\* the lines of a text
Split(t) ==
    IF \A i \in DOMAIN t : t[i] # NL THEN <<t>>
    ELSE LET i == CHOOSE j \in DOMAIN t :
                      t[j] = NL /\ \A k \in 1..(j - 1) : t[k] # NL
         IN <<SubSeq(t, 1, i - 1)>> \o Split(SubSeq(t, i + 1, Len(t)))

\* what precedes the text of a literal on its first line: `///` and blanks
Prefix(col) == [i \in 1..col |-> IF i <= 3 THEN SLASH ELSE SPACE]

RECURSIVE Walk(_, _)
\* the position behind the text t that starts at position state
Walk(t, state) ==
    IF t = <<>> THEN state ELSE Walk(Tail(t), Advance(state, Head(t)))

\* one literal appended to a chunk under construction: literals are joined
\* by newlines, each starts on a line of its own, and a literal of several
\* lines continues at column 0.  incl: the span of a fragment ends at its
\* last character (else behind it); find_spans reads the start only.
AddLiteral(acc, sh, col, incl) ==
    LET t == Letterize(sh, acc.used)
        joined == IF acc.source_mapping = <<>> THEN acc.content
                  ELSE Append(acc.content, NL)
        first == LineColumn(Len(acc.source) + 1, col)
        last == IF t = <<>> THEN first
                ELSE IF incl THEN Walk(SubSeq(t, 1, Len(t) - 1), first)
                ELSE Walk(t, first)
        pieces == Split(t)
    IN [content |-> joined \o t,
        source_mapping |-> Append(acc.source_mapping,
            [range |-> Range(Len(joined), Len(joined) + Len(t)),
             span |-> Span(first, last)]),
        source |-> acc.source \o <<Prefix(col) \o Head(pieces)>> \o Tail(pieces),
        used |-> acc.used + Visible(sh)]

RECURSIVE IntoChunk(_, _, _, _)
\* LiteralSet::into_chunk over the literals of a file
IntoChunk(acc, shapes, col, incl) ==
    IF shapes = <<>> THEN acc
    ELSE IntoChunk(AddLiteral(acc, Head(shapes), col, incl), Tail(shapes), col, incl)

\* the blanks of the content in front of the first fragment: the one of
\* `/// text`, none for a literal that starts at column 0
Lead(col) == IF col = TRIPLE_SLASH_SPACE THEN <<SPACE>> ELSE <<>>

\* CheckableChunk::from_literalset
FromLiteralsetOf(shapes, col, incl) ==
    IntoChunk([content |-> Lead(col), source_mapping |-> <<>>,
               source |-> <<>>, used |-> 0], shapes, col, incl)

RECURSIVE JoinLines(_)
\* the characters of a file
JoinLines(lines) ==
    IF lines = <<>> THEN <<>>
    ELSE IF Len(lines) = 1 THEN Head(lines)
    ELSE Head(lines) \o <<NL>> \o JoinLines(Tail(lines))

Before(a, b) == a.line < b.line \/ (a.line = b.line /\ a.column < b.column)

RECURSIVE Extract(_, _, _, _)
Extract(file, idx, state, span) ==
    IF idx > Len(file) THEN <<>>
    ELSE (IF ~Before(state, span.start) /\ ~Before(span.end, state)
          THEN <<file[idx]>> ELSE <<>>)
         \o Extract(file, idx + 1, Advance(state, file[idx]), span)

\* util::load_span_from: the characters of the file from span.start up to
\* and including span.end
LoadSpanFrom(lines, span) == Extract(JoinLines(lines), 1, LineColumn(1, 0), span)

(***************************************************************************)
(* CheckableChunk::find_spans.                                             *)
(***************************************************************************)
\* the predicate of skip_while
SkipPred(fragment_range, start) == fragment_range.end <= start

\* take_while that also stops at a fragment that ends with the query
TakePredStrict(fragment_range, end) == end < fragment_range.end

\* the predicate of take_while
TakePred(fragment_range, end) == end <= fragment_range.end

RECURSIVE SkipWhile(_, _)
SkipWhile(mapping, start) ==
    IF mapping = <<>> THEN <<>>
    ELSE IF SkipPred(Head(mapping).range, start) THEN SkipWhile(Tail(mapping), start)
    ELSE mapping

RECURSIVE TakeWhile(_, _)
TakeWhile(mapping, end) ==
    IF mapping = <<>> THEN <<>>
    ELSE IF TakePred(Head(mapping).range, end)
         THEN <<Head(mapping)>> \o TakeWhile(Tail(mapping), end)
    ELSE <<>>

\* the filter: empty documentation lines are left out
NonEmpty(fragment_range) == RangeLen(fragment_range) > 0

\* the range of the whole fragment, not trimmed to the query
SubFragmentRangeUntrimmed(fragment_range, r) == fragment_range

\* trim range so we only capture the relevant part
SubFragmentRange(fragment_range, r) ==
    Range(Max(fragment_range.start, r.start), Min(fragment_range.end, r.end))

\* no sub fragment is dropped
DroppedNever(sub_fragment_range) == FALSE

\* "sub fragment is zero, dropping!"
Dropped(sub_fragment_range) == RangeLen(sub_fragment_range) = 0

\* the for loop left one character late
LoopBreakLate(idx, sub_len, shift) == idx >= sub_len + shift

\* the break of the for loop
LoopBreak(idx, sub_len, shift) == idx >= sub_len + shift - 1

RECURSIVE Replay(_, _, _, _, _, _)
\* the for loop from character idx on; state is the state of the scan
Replay(s, idx, state, shift, sub_len, sub_fragment_span) ==
    IF idx >= Len(s) THEN sub_fragment_span
    ELSE LET cursor == state
             started == IF idx = shift
                        THEN [sub_fragment_span EXCEPT !.start = cursor]
                        ELSE sub_fragment_span
             ended == [started EXCEPT !.end = cursor]
         IN IF LoopBreak(idx, sub_len, shift) THEN ended
            ELSE Replay(s, idx + 1, Advance(state, s[idx + 1]), shift, sub_len, ended)

\* a replay that leaves the start of the span at the start of the fragment
SubFragmentSpanUnshifted(content, fragment_range, fragment_span, sub_fragment_range) ==
    Replay(SubChars(content, fragment_range), 0, fragment_span.start, 0,
           sub_fragment_range.end - fragment_range.start, fragment_span)

\* the span of the sub-range: the replay of the fragment's characters
SubFragmentSpan(content, fragment_range, fragment_span, sub_fragment_range) ==
    LET s == SubChars(content, fragment_range)
        shift == sub_fragment_range.start - fragment_range.start
    IN Replay(s, 0, fragment_span.start, shift,
              RangeLen(sub_fragment_range), fragment_span)

RECURSIVE FilterMap(_, _, _)
\* the closure of filter_map over the selected fragments
FilterMap(content, fragments, r) ==
    IF fragments = <<>> THEN <<>>
    ELSE LET f == Head(fragments)
             sub == SubFragmentRange(f.range, r)
             rest == FilterMap(content, Tail(fragments), r)
         IN IF Dropped(sub) THEN rest
            ELSE <<[range |-> sub,
                    span |-> SubFragmentSpan(content, f.range, f.span, sub),
                    fragment |-> f]>> \o rest

\* IndexMap::insert: a known key keeps its place and gets the new value
IndexMapInsert(m, k, v) ==
    IF \E i \in DOMAIN m : m[i].range = k
    THEN [i \in DOMAIN m |-> IF m[i].range = k THEN [range |-> k, span |-> v] ELSE m[i]]
    ELSE Append(m, [range |-> k, span |-> v])

RECURSIVE Collect(_, _)
Collect(pairs, m) ==
    IF pairs = <<>> THEN m
    ELSE Collect(Tail(pairs), IndexMapInsert(m, Head(pairs).range, Head(pairs).span))

\* the fragments that reach the closure of filter_map
Selected(c, r) ==
    SelectSeq(TakeWhile(SkipWhile(c.source_mapping, r.start), r.end),
              LAMBDA f : NonEmpty(f.range))

\* the two debug_assert_eq! of one fragment that is not dropped
DebugAsserts(e) ==
    (IF OneLineLen(e.fragment.span) # <<>>
     THEN <<[left |-> OneLineLen(e.fragment.span)[1],
             right |-> RangeLen(e.fragment.range)]>>
     ELSE <<>>)
    \o (IF OneLineLen(e.span) # <<>>
        THEN <<[left |-> OneLineLen(e.span)[1], right |-> RangeLen(e.range)]>>
        ELSE <<>>)

RECURSIVE AllAsserts(_)
AllAsserts(entries) ==
    IF entries = <<>> THEN <<>>
    ELSE DebugAsserts(Head(entries)) \o AllAsserts(Tail(entries))

\* find_spans: the returned map and the assertions evaluated on the way
FindSpans(c, r) ==
    LET entries == FilterMap(c.content, Selected(c, r), r)
    IN [map |-> Collect(entries, <<>>), asserts |-> AllAsserts(entries)]

(***************************************************************************)
(* The quirk chain, src/quirks.rs.  A str is a sequence of characters; its *)
(* len() counts the bytes of its UTF-8 encoding.                           *)
(***************************************************************************)
DQ == "\""
SQ == "'"
\* stands for a character of two bytes, such as e with an acute accent
EACUTE == "e'"

QuirkChars == {DQ, SQ, "x", EACUTE}

\* char::len_utf8
Utf8Len(c) == IF c = EACUTE THEN 2 ELSE 1

RECURSIVE ByteLen(_)
\* str::len
ByteLen(t) == IF t = <<>> THEN 0 ELSE Utf8Len(Head(t)) + ByteLen(Tail(t))

\* what a slice at a byte offset inside a character gives: a panic
Panic == <<"panic">>

\* &text[lo..hi]: a slice by byte offsets
ByteSlice(t, lo, hi) ==
    LET off(i) == ByteLen(SubSeq(t, 1, i))
        boundary(b) == \E i \in 0..Len(t) : off(i) = b
    IN IF lo <= hi /\ boundary(lo) /\ boundary(hi)
       THEN SelectSeq([i \in DOMAIN t |-> <<t[i], off(i - 1), off(i)>>],
                      LAMBDA e : lo <= e[2] /\ e[3] <= hi)
       ELSE Panic

\* the characters of a slice
Chars(slice) == IF slice = Panic THEN Panic ELSE [i \in DOMAIN slice |-> slice[i][1]]

\* text.chars().next() == Some(c)
FirstIs(t, c) == t # <<>> /\ t[1] = c

\* text.chars().last() == Some(c)
LastIs(t, c) == t # <<>> /\ t[Len(t)] = c

\* Quirk::from_str: an Option, <<>> for None
FromStr(q) ==
    CASE q = "single-quoted" -> <<"SingleQuoted">>
      [] q = "quoted" -> <<"Quoted">>
      [] q = "multipicity-x-suffix" -> <<"MultipicityXsuffix">>
      [] OTHER -> <<>>

\* Quirk::call on MultipicityXsuffix that also strips a lone x
CallStripsLoneX(quirk, t) ==
    CASE quirk = "Quoted" ->
            IF ByteLen(t) > 2 /\ FirstIs(t, DQ) /\ LastIs(t, DQ)
            THEN <<Chars(ByteSlice(t, 1, ByteLen(t) - 1))>> ELSE <<>>
      [] quirk = "SingleQuoted" ->
            IF ByteLen(t) > 2 /\ FirstIs(t, SQ) /\ LastIs(t, SQ)
            THEN <<Chars(ByteSlice(t, 1, ByteLen(t) - 1))>> ELSE <<>>
      [] quirk = "MultipicityXsuffix" ->
            IF ByteLen(t) > 0 /\ LastIs(t, "x")
            THEN <<Chars(ByteSlice(t, 0, ByteLen(t) - 1))>> ELSE <<>>

\* Quirk::call: an Option, <<>> for None
Call(quirk, t) ==
    CASE quirk = "Quoted" ->
            IF ByteLen(t) > 2 /\ FirstIs(t, DQ) /\ LastIs(t, DQ)
            THEN <<Chars(ByteSlice(t, 1, ByteLen(t) - 1))>> ELSE <<>>
      [] quirk = "SingleQuoted" ->
            IF ByteLen(t) > 2 /\ FirstIs(t, SQ) /\ LastIs(t, SQ)
            THEN <<Chars(ByteSlice(t, 1, ByteLen(t) - 1))>> ELSE <<>>
      [] quirk = "MultipicityXsuffix" ->
            IF ByteLen(t) > 1 /\ LastIs(t, "x")
            THEN <<Chars(ByteSlice(t, 0, ByteLen(t) - 1))>> ELSE <<>>

\* a find that looks at the first configured quirk only
FindFirstOnly(qs, t) ==
    IF qs # <<>> /\ Call(qs[1], t) # <<>> THEN <<qs[1]>> ELSE <<>>

\* self.quirks.iter().find(|q| q.call(changed_text).is_some()): an Option
Find(qs, t) ==
    IF \E i \in DOMAIN qs : Call(qs[i], t) # <<>>
    THEN <<qs[CHOOSE i \in DOMAIN qs :
                  /\ Call(qs[i], t) # <<>>
                  /\ \A j \in 1..(i - 1) : Call(qs[j], t) = <<>>]>>
    ELSE <<>>

\* check_quirk returning Some whether or not a quirk was found
ReturnValueAlwaysSome(found, t) == <<t>>

\* the value check_quirk returns
ReturnValue(found, t) == IF found THEN <<t>> ELSE <<>>

RECURSIVE WhileLet(_, _, _)
\* the while-let loop of check_quirk and the value returned behind it
WhileLet(qs, changed, found) ==
    IF Find(qs, changed) = <<>> THEN ReturnValue(found, changed)
    ELSE WhileLet(qs, Call(Find(qs, changed)[1], changed)[1], TRUE)

\* Quirks::check_quirk as one call, for a Quirks holding the list qs
CheckQuirk(qs, t) == WhileLet(qs, t, FALSE)

RECURSIVE Dedup(_)
\* Vec::dedup_by(|a, b| a == b): consecutive equal elements are merged
Dedup(qs) ==
    IF Len(qs) < 2 THEN qs
    ELSE IF qs[1] = qs[2] THEN Dedup(Tail(qs))
    ELSE <<Head(qs)>> \o Dedup(Tail(qs))

RECURSIVE Flatten(_)
Flatten(opts) == IF opts = <<>> THEN <<>> ELSE Head(opts) \o Flatten(Tail(opts))

\* Quirks::quirks
QuirksOf(names) == Dedup(Flatten([i \in DOMAIN names |-> FromStr(names[i])]))

QuirkNames == {"single-quoted", "quoted", "multipicity-x-suffix",
               "dash-free-compound-words"}

\* cfg.quirks: None, or Some list of names
CfgQuirks == {<<>>} \cup {<<names>> : names \in UNION {[1..n -> QuirkNames] : n \in 0..MaxNames}}

\* names a configuration may hold: the known ones, an unknown one, and the
\* name of an enum variant, which is not the name of a quirk
ListNames == QuirkNames \cup {"Quoted"}

\* the token "catx" in double quotes
Catx == <<DQ, "c", "a", "t", "x", DQ>>

Tokens == UNION {[1..n -> QuirkChars] : n \in 0..MaxTokenLen} \cup {Catx}

\* Quirks::from_cfg
FromCfg ==
    /\ pc = "new"
    /\ \E cfg \in CfgQuirks :
        quirks' = IF cfg = <<>> THEN <<>> ELSE QuirksOf(cfg[1])
    /\ pc' = "idle"
    /\ UNCHANGED <<text, changed_text, found_one, iterations, retval, rechecked>>
    /\ UNCHANGED exceptQuirk

\* check_quirk is called with a token
CheckQuirkEnter ==
    /\ pc = "idle"
    /\ \E t \in Tokens :
        /\ text' = t
        /\ changed_text' = t
    /\ found_one' = FALSE
    /\ iterations' = 0
    /\ pc' = "loop"
    /\ UNCHANGED <<quirks, retval, rechecked>>
    /\ UNCHANGED exceptQuirk

\* one iteration of the while loop
CheckQuirkLoop ==
    /\ pc = "loop"
    /\ Find(quirks, changed_text) # <<>>
    /\ changed_text' = Call(Find(quirks, changed_text)[1], changed_text)[1]
    /\ found_one' = TRUE
    /\ iterations' = iterations + 1
    /\ UNCHANGED <<quirks, text, retval, rechecked, pc>>
    /\ UNCHANGED exceptQuirk

\* check_quirk leaving its loop as soon as one quirk was applied
CheckQuirkReturnEarly ==
    /\ pc = "loop"
    /\ found_one \/ Find(quirks, changed_text) = <<>>
    /\ retval' = ReturnValue(found_one, changed_text)
    /\ pc' = "done"
    /\ UNCHANGED <<quirks, text, changed_text, found_one, iterations, rechecked>>
    /\ UNCHANGED exceptQuirk

\* the loop ends and check_quirk returns
CheckQuirkReturn ==
    /\ pc = "loop"
    /\ Find(quirks, changed_text) = <<>>
    /\ retval' = ReturnValue(found_one, changed_text)
    /\ pc' = "done"
    /\ UNCHANGED <<quirks, text, changed_text, found_one, iterations, rechecked>>
    /\ UNCHANGED exceptQuirk

\* check_quirk is called with the text its previous call returned
Recheck ==
    /\ pc = "done"
    /\ ~rechecked
    /\ retval # <<>>
    /\ text' = retval[1]
    /\ changed_text' = retval[1]
    /\ found_one' = FALSE
    /\ iterations' = 0
    /\ retval' = <<>>
    /\ rechecked' = TRUE
    /\ pc' = "loop"
    /\ UNCHANGED quirks
    /\ UNCHANGED exceptQuirk

(***************************************************************************)
(* Actions on the chunk.                                                   *)
(***************************************************************************)
EmptyChunk == [content |-> <<>>, source_mapping |-> <<>>]

\* a chunk is built from the literals of a file; it is immutable afterwards
FromLiteralset ==
    /\ stage = "none"
    /\ stage' = "chunk"
    /\ \E shapes \in LiteralSets, col \in Columns, incl \in BOOLEAN :
        LET built == FromLiteralsetOf(shapes, col, incl)
        IN /\ chunk' = [content |-> built.content,
                        source_mapping |-> built.source_mapping]
           /\ source' = built.source
    /\ UNCHANGED <<range, spans, asserts>>
    /\ UNCHANGED exceptChunk

\* the ranges find_spans is called with
Queries(c) ==
    {Range(s, e) : s \in 0..(Len(c.content) + MaxOver),
                   e \in 0..(Len(c.content) + MaxOver)}

\* a call of find_spans
CallFindSpans ==
    /\ stage = "chunk"
    /\ stage' = "spans"
    /\ \E r \in Queries(chunk) :
        /\ range' = r
        /\ spans' = FindSpans(chunk, r).map
        /\ asserts' = FindSpans(chunk, r).asserts
    /\ UNCHANGED <<source, chunk>>
    /\ UNCHANGED exceptChunk

(***************************************************************************)
(* The Hunspell checker, checker/hunspell.rs.  A word is a sequence of     *)
(* characters; the Documentation holds chunks of words on one line each.   *)
(***************************************************************************)
Test == <<"T", "e", "s", "t">>
Tezt == <<"T", "e", "z", "t">>
Cat == <<"c", "a", "t">>

\* the words documentation is made of
Words == {Test, Tezt, Catx}

\* the words of <lang>.dic
LangDic == {Test, Cat}

\* the words of an extra dictionary
ExtraDic == {Tezt}

\* what the backend may propose: a word, a one-byte character, a two-byte one
Candidates == {Test, <<"T">>, <<EACUTE>>}

\* the replies of Hunspell::suggest
Replies == UNION {[1..n -> Candidates] : n \in 0..MaxCands}

\* a search dir: not a directory, a directory without <lang>.dic, one without
\* <lang>.aff, one with both, one with both whose path is not UTF-8
DirKinds == {"notdir", "nodic", "noaff", "both", "both_nonutf8"}

\* an extra dictionary: not a file, a file the backend refuses, a file whose
\* path is not UTF-8, a file the backend takes
ExtraKinds == {"notfile", "refused", "nonutf8", "ok"}

Configs ==
    {[search_dirs |-> d, extra_dictonaries |-> e] :
        d \in UNION {[1..n -> DirKinds] : n \in 0..MaxDirs},
        e \in UNION {[1..n -> ExtraKinds] : n \in 0..MaxExtra}}

\* CheckableChunk::from_str
ChunkFromStr(content, source_mapping) ==
    [content |-> content, source_mapping |-> source_mapping]

\* a chunk of one line of words, as one fragment spanning from start to end
LineChunk(content, line) ==
    ChunkFromStr(content,
        <<[range |-> Range(0, Len(content)),
           span |-> Span(LineColumn(line, 0), LineColumn(line, Len(content) - 1))]>>)

\* CheckableChunk::erase_markdown, for content without markup
EraseMarkdown(c) == [plain |-> c.content, raw |-> c]

\* PlainOverlay::find_spans, for content without markup
PlainFindSpans(overlay, r) == FindSpans(overlay.raw, r).map

Blank(c) == c \in {SPACE, NL}

RECURSIVE Scan(_, _, _)
\* the scan of tokenize: i is the next character, from the offset the word
\* under the scan started at, -1 between words
Scan(txt, i, from) ==
    LET word == IF from >= 0 THEN <<Range(from, i - 1)>> ELSE <<>>
    IN IF i > Len(txt) THEN word
       ELSE IF Blank(txt[i]) THEN word \o Scan(txt, i + 1, -1)
       ELSE Scan(txt, i + 1, IF from >= 0 THEN from ELSE i - 1)

\* tokenize: the ranges of the words of a text, in order
Tokenize(txt) == Scan(txt, 1, -1)

\* docu.iter() with both inner loops: every token with its origin and chunk
TokensOf(d) ==
    Flatten([o \in DOMAIN d |->
        Flatten([c \in DOMAIN d[o] |->
            LET toks == Tokenize(EraseMarkdown(d[o][c]).plain)
            IN [t \in DOMAIN toks |-> [origin |-> o, chunk |-> c, range |-> toks[t]]]])])

\* the search: the first directory that holds <lang>.dic and <lang>.aff
FindMap(dirs) ==
    IF \E i \in DOMAIN dirs : dirs[i] \in {"both", "both_nonutf8"}
    THEN <<dirs[CHOOSE i \in DOMAIN dirs :
                    /\ dirs[i] \in {"both", "both_nonutf8"}
                    /\ \A j \in 1..(i - 1) : dirs[j] \notin {"both", "both_nonutf8"}]>>
    ELSE <<>>

\* the loop over the extra dictionaries: the first one that bails, if any
ExtraBail(extras) ==
    IF \E i \in DOMAIN extras : extras[i] # "ok"
    THEN <<extras[CHOOSE i \in DOMAIN extras :
                      extras[i] # "ok" /\ \A j \in 1..(i - 1) : extras[j] = "ok"]>>
    ELSE <<>>

\* the assertions on the context of en_US
EnUsAsserts(dic) == Test \in dic

Returned(kind, set) == [kind |-> kind, set |-> set]

\* SuggestionSet::new
NewSuggestionSet == [o \in 1..MaxOrigins |-> <<>>]

\* SuggestionSet::add
SuggestionSetAdd(set, origin, suggestion) ==
    [set EXCEPT ![origin] = Append(@, suggestion)]

\* the looked-up word, were the token looked up as it is
TrimedWordUnreduced(qs, word) == word

\* trimed_word: the token behind the quirk chain, or the token itself
TrimedWord(qs, word) ==
    IF CheckQuirk(qs, word) = <<>> THEN word ELSE CheckQuirk(qs, word)[1]

\* Hunspell::check
HunspellCheck(dic, word) == word \in dic

\* the filter on the backend's suggestions
Replacements(cands) == SelectSeq(cands, LAMBDA x : ByteLen(x) > 1)

RECURSIVE AddAll(_, _, _, _, _)
\* the loop over plain.find_spans(range)
AddAll(set, pairs, origin, c, replacements) ==
    IF pairs = <<>> THEN set
    ELSE AddAll(SuggestionSetAdd(set, origin,
                    [detector |-> "Hunspell",
                     range |-> Head(pairs).range,
                     span |-> Head(pairs).span,
                     origin |-> origin,
                     replacements |-> replacements,
                     chunk |-> c,
                     description |-> "Possible spelling mistake found."]),
                Tail(pairs), origin, c, replacements)

\* the Documentation gets one more word: in the last chunk, in a new chunk of
\* the last origin, or in the chunk of a new origin
DocumentationAdd ==
    /\ hpc = "docu"
    /\ Len(TokensOf(docu)) < MaxWords
    /\ \E w \in Words, place \in {"chunk", "unit", "origin"} :
          LET o == Len(docu)
              c == IF o = 0 THEN 0 ELSE Len(docu[o])
          IN /\ place = "chunk" =>
                  /\ o > 0
                  /\ docu' = [docu EXCEPT ![o][c] =
                                  LineChunk(@.content \o <<SPACE>> \o w, c)]
             /\ place = "unit" =>
                  /\ o > 0
                  /\ c < MaxChunks
                  /\ docu' = [docu EXCEPT ![o] = Append(@, LineChunk(w, c + 1))]
             /\ place = "origin" =>
                  /\ o < MaxOrigins
                  /\ docu' = Append(docu, <<LineChunk(w, 1)>>)
    /\ UNCHANGED <<quirks_opt, config, suggested, hunspell, todo, token_no, acc_set, result,
                   hpc>>
    /\ UNCHANGED exceptHunspell

\* the Quirks a caller may hand over
QuirksOpts == {<<>>, <<<<>>>>, <<<<"Quoted", "MultipicityXsuffix">>>>}

\* HunspellChecker::check is called
Enter(configs, replies) ==
    /\ hpc = "docu"
    /\ quirks_opt' \in QuirksOpts
    /\ config' \in configs
    /\ suggested' \in replies
    /\ hpc' = "entered"
    /\ UNCHANGED <<docu, hunspell, todo, token_no, acc_set, result>>
    /\ UNCHANGED exceptHunspell

\* configurations that find their dictionaries
FoundConfigs ==
    {[search_dirs |-> <<"both">>, extra_dictonaries |-> <<>>],
     [search_dirs |-> <<"notdir", "both">>, extra_dictonaries |-> <<"ok">>]}

\* the call on any Documentation, with dictionaries that are found
CheckDocumentation == Enter(FoundConfigs, Replies)

\* the call on any configuration, with a Documentation of one word at most
CheckConfigured ==
    /\ Len(TokensOf(docu)) <= 1
    /\ Enter(Configs, {<<Test>>})

\* the dictionary lookup, the context and the extra dictionaries
Configure ==
    /\ hpc = "entered"
    /\ LET found == FindMap(config.search_dirs)
           bail == ExtraBail(config.extra_dictonaries)
       IN IF found = <<>> THEN
              /\ result' = Returned("Err", <<>>)
              /\ hpc' = "returned"
              /\ UNCHANGED <<hunspell, todo, token_no, acc_set>>
          ELSE IF found[1] = "both_nonutf8" \/ ~EnUsAsserts(LangDic) THEN
              /\ result' = Returned("panic", <<>>)
              /\ hpc' = "returned"
              /\ UNCHANGED <<hunspell, todo, token_no, acc_set>>
          ELSE IF bail # <<>> THEN
              /\ result' = Returned("Err", <<>>)
              /\ hpc' = "returned"
              /\ hunspell' = LangDic
              /\ UNCHANGED <<todo, token_no, acc_set>>
          ELSE
              /\ hunspell' = IF config.extra_dictonaries = <<>> THEN LangDic
                              ELSE LangDic \cup ExtraDic
              /\ acc_set' = NewSuggestionSet
              /\ todo' = TokensOf(docu)
              /\ hpc' = "fold"
              /\ UNCHANGED <<token_no, result>>
    /\ UNCHANGED <<docu, quirks_opt, config, suggested>>
    /\ UNCHANGED exceptHunspell

\* the body of the loop over the tokens, for the next token
CheckToken ==
    /\ hpc = "fold"
    /\ todo # <<>>
    /\ LET c == docu[Head(todo).origin][Head(todo).chunk]
           word == SubChars(EraseMarkdown(c).plain, Head(todo).range)
       IN IF quirks_opt = <<>> THEN
              /\ result' = Returned("panic", <<>>)
              /\ hpc' = "returned"
              /\ UNCHANGED <<todo, token_no, acc_set>>
          ELSE
              /\ acc_set' = IF HunspellCheck(hunspell, TrimedWord(quirks_opt[1], word))
                             THEN acc_set
                             ELSE AddAll(acc_set,
                                         PlainFindSpans(EraseMarkdown(c), Head(todo).range),
                                         Head(todo).origin, c, Replacements(suggested))
              /\ todo' = Tail(todo)
              /\ token_no' = token_no + 1
              /\ UNCHANGED <<result, hpc>>
    /\ UNCHANGED <<docu, quirks_opt, config, suggested, hunspell>>
    /\ UNCHANGED exceptHunspell

\* Ok(suggestions)
HunspellReturn ==
    /\ hpc = "fold"
    /\ todo = <<>>
    /\ result' = Returned("Ok", acc_set)
    /\ hpc' = "returned"
    /\ UNCHANGED <<docu, quirks_opt, config, suggested, hunspell, todo, token_no, acc_set>>
    /\ UNCHANGED exceptHunspell

(***************************************************************************)
(* Equality and hash of CheckableChunk.                                    *)
(***************************************************************************)
\* IndexMap::get: an Option
IndexMapGet(m, key) ==
    IF \E i \in DOMAIN m : m[i].range = key
    THEN <<m[CHOOSE i \in DOMAIN m : m[i].range = key].span>>
    ELSE <<>>

\* IndexMap's ==: as many entries, and every key of the one maps to the same
\* value in the other
IndexMapEq(m, n) ==
    /\ Len(m) = Len(n)
    /\ \A i \in DOMAIN m : IndexMapGet(n, m[i].range) = <<m[i].span>>

\* an == that compares the content only
ChunkEqContentOnly(c, d) == c.content = d.content

\* the derived PartialEq of CheckableChunk: field by field
ChunkEq(c, d) ==
    /\ c.content = d.content
    /\ IndexMapEq(c.source_mapping, d.source_mapping)

\* impl Hash for CheckableChunk: what the hasher is fed, in this order
ChunkHash(c) ==
    <<c.content>> \o [i \in DOMAIN c.source_mapping |->
                        <<c.source_mapping[i].range, c.source_mapping[i].span>>]

\* the chunks that are compared: chunks of literal sets and of lines of text
EqChunks ==
    {[content |-> FromLiteralsetOf(shapes, col, incl).content,
      source_mapping |-> FromLiteralsetOf(shapes, col, incl).source_mapping] :
        shapes \in {sh \in LiteralSets : TotalLen(sh) <= MaxEqContent},
        col \in Columns, incl \in BOOLEAN}
    \cup {LineChunk(w, line) : w \in {Test, Tezt}, line \in 1..MaxChunks}

\* two chunks meet
TakeUnits ==
    /\ epc = "none"
    /\ lhs' \in EqChunks
    /\ rhs' \in EqChunks
    /\ epc' = "units"
    /\ UNCHANGED <<eq, hashed>>
    /\ UNCHANGED exceptEq

\* lhs == rhs, and the hash of each
Compare ==
    /\ epc = "units"
    /\ eq' = ChunkEq(lhs, rhs)
    /\ hashed' = <<ChunkHash(lhs), ChunkHash(rhs)>>
    /\ epc' = "compared"
    /\ UNCHANGED <<lhs, rhs>>
    /\ UNCHANGED exceptEq

(***************************************************************************)
(* main.rs: the main thread, the signal handler thread and the signals     *)
(* the process receives.                                                   *)
(***************************************************************************)
\* the commands: --version or --help, config, check, fix
Commands == {"info", "config", "check", "fix"}

\* values of --code, a u8; 0 is the default
Codes == {0, CODE_OF_TEST, EXIT_SIGNAL}

SIGTERM == "SIGTERM"
SIGINT == "SIGINT"
SIGQUIT == "SIGQUIT"

\* Finish, the value of action.run
Finishes ==
    {[kind |-> "MistakeCount", n |-> n] : n \in 0..MaxMistakes}
    \cup {[kind |-> "Abort", n |-> 0]}

\* ExitCode::as_u8
AsU8(code) ==
    CASE code.kind = "Success" -> 0
      [] code.kind = "Signal" -> EXIT_SIGNAL
      [] code.kind = "Custom" -> code.value

ExitCode(kind, value) == [kind |-> kind, value |-> value]

\* the match at the end of run
MatchFinish(finish, flag_code) ==
    CASE finish.kind = "MistakeCount" /\ finish.n = 0 -> ExitCode("Success", 0)
      [] finish.kind = "MistakeCount" /\ finish.n # 0 -> ExitCode("Custom", flag_code)
      [] finish.kind = "Abort" -> ExitCode("Signal", 0)

NotExited == exited.by = "none"

\* parse_args
ParseArgs ==
    /\ NotExited
    /\ mpc = "start"
    /\ args' \in [cmd : Commands, flag_code : Codes]
    /\ mpc' = "parsed"
    /\ UNCHANGED <<ret, handler, received, restore, exited>>
    /\ UNCHANGED exceptMain

\* run returns for --version and --help, before any thread is spawned
ReturnInfo ==
    /\ NotExited
    /\ mpc = "parsed"
    /\ args.cmd = "info"
    /\ ret' = <<ExitCode("Success", 0)>>
    /\ mpc' = "returned"
    /\ UNCHANGED <<args, handler, received, restore, exited>>
    /\ UNCHANGED exceptMain

\* std::thread::spawn(move || signal_handler())
SpawnHandler ==
    /\ NotExited
    /\ mpc = "parsed"
    /\ args.cmd # "info"
    /\ handler' = "started"
    /\ mpc' = "spawned"
    /\ UNCHANGED <<args, ret, received, restore, exited>>
    /\ UNCHANGED exceptMain

\* the rest of run: the config command, or extract, check and action.run;
\* <<>> stands for an Err of any of them
Run ==
    /\ NotExited
    /\ mpc = "spawned"
    /\ \/ ret' = <<>>
       \/ args.cmd = "config" /\ ret' = <<ExitCode("Success", 0)>>
       \/ /\ args.cmd \in {"check", "fix"}
          /\ \E finish \in Finishes : ret' = <<MatchFinish(finish, args.flag_code)>>
    /\ mpc' = "returned"
    /\ UNCHANGED <<args, handler, received, restore, exited>>
    /\ UNCHANGED exceptMain

\* main: std::process::exit(run()?.as_u8() as i32)
MainExit ==
    /\ NotExited
    /\ mpc = "returned"
    /\ exited' = [by |-> "main",
                  code |-> IF ret = <<>> THEN EXIT_FAILURE ELSE AsU8(ret[1])]
    /\ UNCHANGED <<args, mpc, ret, handler, received, restore>>
    /\ UNCHANGED exceptMain

\* signal_handler: Signals::new(..).expect(..), in the spawned thread
HandlerRegister ==
    /\ NotExited
    /\ handler = "started"
    /\ handler' \in {"waiting", "panicked"}
    /\ UNCHANGED <<args, mpc, ret, received, restore, exited>>
    /\ UNCHANGED exceptMain

\* the process receives a termination signal: it is queued for the handler
\* thread if the signals are registered, and ends the process if not
Signal ==
    /\ NotExited
    /\ received = <<>>
    /\ \E s \in {SIGTERM, SIGINT, SIGQUIT} :
          received' = <<[signal |-> s, handler |-> handler]>>
    /\ exited' = IF handler \in {"waiting", "restored"} THEN exited
                 ELSE [by |-> "signal", code |-> 0]
    /\ UNCHANGED <<args, mpc, ret, handler, restore>>
    /\ UNCHANGED exceptMain

\* the handler thread takes the signal from signals.forever() and calls
\* ScopedRaw::restore_terminal, which may fail
HandlerRestore ==
    /\ NotExited
    /\ handler = "waiting"
    /\ received # <<>>
    /\ restore' \in {"ok", "failed"}
    /\ handler' = "restored"
    /\ UNCHANGED <<args, mpc, ret, received, exited>>
    /\ UNCHANGED exceptMain

\* std::process::exit(130) of the handler thread
HandlerExit ==
    /\ NotExited
    /\ handler = "restored"
    /\ exited' = [by |-> "handler", code |-> EXIT_SIGNAL]
    /\ UNCHANGED <<args, mpc, ret, handler, received, restore>>
    /\ UNCHANGED exceptMain

\* Quirks::quirks, called with a list of names
CallQuirks ==
    /\ cfg_names = <<>>
    /\ \E names \in UNION {[1..n -> ListNames] : n \in 1..MaxListNames} :
          /\ cfg_names' = names
          /\ cfg_quirks' = QuirksOf(names)
    /\ UNCHANGED exceptList

InitChunk ==
    /\ source = <<>>
    /\ chunk = EmptyChunk
    /\ range = Range(0, 0)
    /\ spans = <<>>
    /\ asserts = <<>>
    /\ stage = "none"

InitQuirks ==
    /\ quirks = <<>>
    /\ text = <<>>
    /\ changed_text = <<>>
    /\ found_one = FALSE
    /\ iterations = 0
    /\ retval = <<>>
    /\ rechecked = FALSE
    /\ pc = "new"

InitList ==
    /\ cfg_names = <<>>
    /\ cfg_quirks = <<>>

InitHunspell ==
    /\ docu = <<>>
    /\ quirks_opt = <<>>
    /\ config = [search_dirs |-> <<>>, extra_dictonaries |-> <<>>]
    /\ suggested = <<>>
    /\ hunspell = {}
    /\ todo = <<>>
    /\ token_no = 0
    /\ acc_set = NewSuggestionSet
    /\ result = Returned("none", <<>>)
    /\ hpc = "docu"

InitEq ==
    /\ lhs = EmptyChunk
    /\ rhs = EmptyChunk
    /\ eq = FALSE
    /\ hashed = <<>>
    /\ epc = "none"

InitMain ==
    /\ args = [cmd |-> "info", flag_code |-> 0]
    /\ mpc = "start"
    /\ ret = <<>>
    /\ handler = "none"
    /\ received = <<>>
    /\ restore = "none"
    /\ exited = [by |-> "none", code |-> 0]

Init == InitChunk /\ InitQuirks /\ InitList /\ InitHunspell /\ InitEq /\ InitMain

Next == FromLiteralset \/ CallFindSpans

Spec == Init /\ [][Next]_vars

NextQuirks ==
    FromCfg \/ CheckQuirkEnter \/ CheckQuirkLoop \/ CheckQuirkReturn \/ Recheck

SpecQuirks == Init /\ [][NextQuirks]_vars

SpecList == Init /\ [][CallQuirks]_vars

NextHunspell ==
    \/ DocumentationAdd
    \/ CheckDocumentation
    \/ CheckConfigured
    \/ Configure
    \/ CheckToken
    \/ HunspellReturn

SpecHunspell == Init /\ [][NextHunspell]_vars

NextEq == TakeUnits \/ Compare

SpecEq == Init /\ [][NextEq]_vars

NextMain ==
    \/ ParseArgs
    \/ ReturnInfo
    \/ SpawnHandler
    \/ Run
    \/ MainExit
    \/ HandlerRegister
    \/ Signal
    \/ HandlerRestore
    \/ HandlerExit

SpecMain == Init /\ [][NextMain]_vars

\* the loop of check_quirk is sequential code: it takes its next step
FairSpecQuirks ==
    SpecQuirks /\ WF_vars(CheckQuirkLoop) /\ WF_vars(CheckQuirkReturn)

(***************************************************************************)
(* Notions the properties of find_spans are stated with.                   *)
(***************************************************************************)
Mapping == chunk.source_mapping

\* the ranges of a fragment map are ordered and do not overlap
FragmentMapOrdered(m) ==
    \A i, j \in DOMAIN m :
        i < j => /\ m[i].range.start < m[j].range.start
                 /\ m[i].range.end <= m[j].range.start

\* r is a non-empty range inside fragment_range
Inside(r, fragment_range) ==
    /\ r.start < r.end
    /\ fragment_range.start <= r.start
    /\ r.end <= fragment_range.end

\* what a fragment range and r have in common
Intersection(fragment_range, r) ==
    [start |-> IF fragment_range.start > r.start THEN fragment_range.start ELSE r.start,
     end |-> IF fragment_range.end < r.end THEN fragment_range.end ELSE r.end]

Overlaps(fragment_range, r) ==
    Intersection(fragment_range, r).start < Intersection(fragment_range, r).end

\* the covered portions of r, fragment by fragment in the order of the map
CoveredPortions(m, r) ==
    LET hit == SelectSeq(m, LAMBDA f : Overlaps(f.range, r))
    IN [i \in DOMAIN hit |-> Intersection(hit[i].range, r)]

RangesOf(m) == [i \in DOMAIN m |-> m[i].range]

\* the text of a fragment
FragmentText(f) == SubChars(chunk.content, f.range)

SingleLine(f) == \A i \in DOMAIN FragmentText(f) : FragmentText(f)[i] # NL

\* C1: a non-empty query inside one fragment of an ordered fragment map is
\* resolved to exactly one pair, whose range is the query and whose span
\* holds, in the source file, the characters of the content at the query.
C1_InsideOneFragment ==
    (/\ stage = "spans"
     /\ FragmentMapOrdered(Mapping)
     /\ \E i \in DOMAIN Mapping : Inside(range, Mapping[i].range))
    => /\ Len(spans) = 1
       /\ spans[1].range = range
       /\ LoadSpanFrom(source, spans[1].span) = SubChars(chunk.content, range)

\* a query over a line break inside the second fragment, not the whole of it
C1_Witness ==
    /\ stage = "spans"
    /\ Len(Mapping) = 2
    /\ Inside(range, Mapping[2].range)
    /\ range # Mapping[2].range
    /\ \E i \in DOMAIN SubChars(chunk.content, range) :
           SubChars(chunk.content, range)[i] = NL
    /\ Len(spans) = 1
    /\ spans[1].span.start.line < spans[1].span.end.line

\* C2: a query over the join of two or more fragments is resolved to one
\* pair per non-empty fragment it overlaps, in the order of the fragments,
\* each with the intersection of the fragment and the query as its range.
C2_OnePairPerFragment ==
    (/\ stage = "spans"
     /\ Len(CoveredPortions(Mapping, range)) >= 2)
    => RangesOf(spans) = CoveredPortions(Mapping, range)

\* the source position find_spans gives the character index k of entry e
PositionOf(e, k) ==
    Walk(SubChars(chunk.content, [start |-> e.range.start, end |-> k]), e.span.start)

Covers(e, k) == e.range.start <= k /\ k < e.range.end

\* C3: what a query resolves, every query that contains it resolves too,
\* and to the same source position.
C3_CoverageMonotone ==
    stage = "spans" =>
        \A q \in Queries(chunk) :
            (range.start <= q.start /\ q.end <= range.end) =>
                LET small == FindSpans(chunk, q).map
                IN \A k \in q.start..(q.end - 1) :
                     \A i \in DOMAIN small :
                        Covers(small[i], k) =>
                            \E j \in DOMAIN spans :
                                /\ Covers(spans[j], k)
                                /\ PositionOf(spans[j], k) = PositionOf(small[i], k)

\* C4, as stated: a sub-range [a,b) of a fragment of n characters on one
\* line, with span (L,C)..(L,C+n), is resolved to (L,C+a)..(L,C+b).
C4_EndBehindLastCharacter ==
    stage = "spans" =>
        \A i \in DOMAIN Mapping :
            LET f == Mapping[i]
                L == f.span.start.line
                C == f.span.start.column
                n == f.range.end - f.range.start
                a == range.start - f.range.start
                b == range.end - f.range.start
            IN (/\ SingleLine(f)
                /\ f.span.end = LineColumn(L, C + n)
                /\ Inside(range, f.range))
               => /\ Len(spans) = 1
                  /\ spans[1].span = Span(LineColumn(L, C + a), LineColumn(L, C + b))

\* C4, amended: in an ordered fragment map, a sub-range [a,b) of a fragment
\* on one line whose span starts at (L,C) is resolved to
\* (L,C+a)..(L,C+b-1): the span ends at the last character of the
\* intersection.
C4_EndAtLastCharacter ==
    stage = "spans" =>
        \A i \in DOMAIN Mapping :
            LET f == Mapping[i]
                L == f.span.start.line
                C == f.span.start.column
                a == range.start - f.range.start
                b == range.end - f.range.start
            IN (/\ FragmentMapOrdered(Mapping)
                /\ SingleLine(f)
                /\ Inside(range, f.range))
               => /\ Len(spans) = 1
                  /\ spans[1].range = range
                  /\ spans[1].span = Span(LineColumn(L, C + a), LineColumn(L, C + b - 1))

\* a query strictly inside a fragment of one line
C4_Witness ==
    /\ stage = "spans"
    /\ \E i \in DOMAIN Mapping :
        /\ SingleLine(Mapping[i])
        /\ Inside(range, Mapping[i].range)
        /\ Mapping[i].range.start < range.start
        /\ range.end < Mapping[i].range.end
        /\ Mapping[i].span.start.column > 0
    /\ Len(spans) = 1

\* the chunk of the source line `/// xyz`
XyzChunk ==
    /\ chunk.content = <<" ", "x", "y", "z">>
    /\ source = <<<<"/", "/", "/", " ", "x", "y", "z">>>>

\* C5: content " xyz" of the line `/// xyz`: 1..4 is resolved to the one
\* pair (1..4, (1,4)..(1,6)).
C5_Xyz ==
    (stage = "spans" /\ XyzChunk /\ range = Range(1, 4))
    => spans = <<[range |-> Range(1, 4),
                  span |-> Span(LineColumn(1, 4), LineColumn(1, 6))]>>

C5_Witness ==
    /\ stage = "spans"
    /\ XyzChunk
    /\ range = Range(1, 4)
    /\ Len(spans) = 1

\* the query starts in front of the first fragment or ends behind the last
Protrudes(m, r) ==
    /\ m # <<>>
    /\ r.start < m[1].range.start \/ r.end > m[Len(m)].range.end

\* C6: a query that starts before the first fragment or ends after the last
\* one and overlaps a fragment is resolved to its covered portions.
C6_TrimmedNotDropped ==
    (/\ stage = "spans"
     /\ Protrudes(Mapping, range)
     /\ CoveredPortions(Mapping, range) # <<>>)
    => /\ spans # <<>>
       /\ RangesOf(spans) = CoveredPortions(Mapping, range)

\* C7: a query that overlaps no fragment is resolved to the empty map, and
\* no assertion is evaluated on the way.
C7_MissIsEmpty ==
    (/\ stage = "spans"
     /\ \A i \in DOMAIN Mapping : ~Overlaps(Mapping[i].range, range))
    => spans = <<>> /\ asserts = <<>>

\* a non-empty query in the gap between two non-empty fragments
C7_Witness ==
    /\ stage = "spans"
    /\ Len(Mapping) = 2
    /\ RangeLen(Mapping[1].range) > 0
    /\ RangeLen(Mapping[2].range) > 0
    /\ range.start = Mapping[1].range.end
    /\ range.end = Mapping[2].range.start
    /\ range.start < range.end
    /\ spans = <<>>

(***************************************************************************)
(* Notions the properties of the quirk chain are stated with.              *)
(***************************************************************************)
Matches(quirk, t) == Call(quirk, t) # <<>>

NoneMatches(qs, t) == \A i \in DOMAIN qs : ~Matches(qs[i], t)

\* what a transform leaves of a text it matches, character by character:
\* the text without its two quotes, or without its trailing x
Stripped(quirk, t) ==
    IF quirk = "MultipicityXsuffix" THEN SubSeq(t, 1, Len(t) - 1)
    ELSE SubSeq(t, 2, Len(t) - 1)

RECURSIVE Reduced(_, _)
\* the first matching transform applied until none matches
Reduced(qs, t) ==
    IF NoneMatches(qs, t) THEN t
    ELSE LET i == CHOOSE k \in DOMAIN qs :
                      Matches(qs[k], t) /\ \A j \in 1..(k - 1) : ~Matches(qs[j], t)
         IN Reduced(qs, Stripped(qs[i], t))

Active(quirk) == \E i \in DOMAIN quirks : quirks[i] = quirk

\* C8: check_quirk returns None iff no configured transform matches the
\* token, and else Some of the text that the first matching transform,
\* applied until none matches, leaves; "catx" in double quotes gives cat
\* when Quoted and MultipicityXsuffix are configured.
C8_FullyReduced ==
    (pc = "done") =>
        /\ retval = <<>> <=> NoneMatches(quirks, text)
        /\ retval # <<>> =>
              /\ retval[1] = Reduced(quirks, text)
              /\ NoneMatches(quirks, retval[1])
        /\ (text = Catx /\ Active("Quoted") /\ Active("MultipicityXsuffix"))
              => retval = <<<<"c", "a", "t">>>>

C8_Witness ==
    /\ pc = "done"
    /\ ~rechecked
    /\ text = Catx
    /\ quirks = <<"Quoted", "MultipicityXsuffix">>
    /\ iterations = 2
    /\ retval = <<<<"c", "a", "t">>>>

\* every transform that matches returns a shorter text that is not empty
Shrinks(t) ==
    \A i \in DOMAIN quirks :
        Matches(quirks[i], t) =>
            /\ Call(quirks[i], t)[1] # Panic
            /\ Call(quirks[i], t)[1] # <<>>
            /\ Len(Call(quirks[i], t)[1]) < Len(t)
            /\ ByteLen(Call(quirks[i], t)[1]) < ByteLen(t)

\* C9: check_quirk terminates: a transform that matches returns a shorter
\* text, never the empty one, so the loop runs at most len(token)
\* iterations and then returns.
C9_Terminates ==
    /\ [](pc \in {"loop", "done"} =>
            /\ Shrinks(changed_text)
            /\ Len(changed_text) + iterations <= Len(text)
            /\ iterations <= Len(text)
            /\ iterations > 0 => changed_text # <<>>)
    /\ (pc = "loop") ~> (pc = "done")

\* two transforms were applied and one character is left
C9_Witness ==
    /\ pc = "done"
    /\ ~rechecked
    /\ iterations = 2
    /\ retval # <<>>
    /\ Len(retval[1]) = 1

\* C10: check_quirk returns None for a text it has returned.
C10_Idempotent == (pc = "done" /\ rechecked) => retval = <<>>

C10_Witness ==
    /\ pc = "done"
    /\ rechecked
    /\ text = <<"c", "a", "t">>
    /\ Len(quirks) >= 2
    /\ retval = <<>>

(***************************************************************************)
(* Quirk chain: confluence and configuration.                              *)
(***************************************************************************)
\* the Quirk values
QuirkKinds == {"SingleQuoted", "Quoted", "MultipicityXsuffix"}

\* every list of quirks a Quirks may hold, up to the length of the model
QuirkLists == UNION {[1..n -> QuirkKinds] : n \in 0..MaxNames}

SetOf(list) == {list[i] : i \in DOMAIN list}

\* C11: the value a finished check_quirk call returned for its token is the
\* value check_quirk returns for the same token under every other list that
\* holds the same set of transforms, in whatever order.
C11_Confluent ==
    pc = "done" =>
        \A other \in QuirkLists :
            SetOf(other) = SetOf(quirks) => CheckQuirk(other, text) = retval

\* a call under two different transforms that applied both of them, the
\* second of the list first
C11_Witness ==
    /\ pc = "done"
    /\ Len(quirks) = 2
    /\ quirks[1] # quirks[2]
    /\ iterations = 2
    /\ Call(quirks[2], text) # <<>>

Count(list, q) == Cardinality({i \in DOMAIN list : list[i] = q})

\* C12: the list Quirks::quirks returns holds known transforms only, holds
\* the transform of every known name it was given, and holds each transform
\* at most once, wherever the duplicates stood in the list of names.
C12_EachKnownOnce ==
    /\ \A i \in DOMAIN cfg_quirks : cfg_quirks[i] \in QuirkKinds
    /\ \A i \in DOMAIN cfg_names :
          FromStr(cfg_names[i]) # <<>> => FromStr(cfg_names[i])[1] \in SetOf(cfg_quirks)
    /\ \A q \in QuirkKinds : Count(cfg_quirks, q) <= 1

(***************************************************************************)
(* The Hunspell checker.                                                   *)
(***************************************************************************)
\* every Suggestion the fold holds, of every origin
AllSuggestions == UNION {SetOf(acc_set[o]) : o \in DOMAIN acc_set}

\* C13: no replacement of a Suggestion is a single character, counted in
\* characters, and the replacements are the backend's candidates of more than
\* one character in the backend's order.
C13_NoSingleCharacter ==
    \A sg \in AllSuggestions :
        /\ \A i \in DOMAIN sg.replacements : Len(sg.replacements[i]) > 1
        /\ sg.replacements = SelectSeq(suggested, LAMBDA x : Len(x) > 1)

\* no search dir holds both files, or an extra dictionary is not a file or
\* cannot be added
ConfigurationFails ==
    \/ \A i \in DOMAIN config.search_dirs :
          config.search_dirs[i] \in {"notdir", "nodic", "noaff"}
    \/ \E i \in DOMAIN config.extra_dictonaries : config.extra_dictonaries[i] # "ok"

\* C14: a finished call returned an error exactly when the configuration
\* fails, no token was examined before an error, and under a configuration
\* that does not fail the call returned Ok.
C14_ErrorIffConfigurationFails ==
    hpc = "returned" =>
        /\ result.kind = "Err" <=> ConfigurationFails
        /\ result.kind = "Err" => token_no = 0 /\ AllSuggestions = {}
        /\ ~ConfigurationFails => result.kind = "Ok"

\* the tokens of the Documentation whose quirk-reduced word the context
\* does not know
Misses ==
    {t \in SetOf(TokensOf(docu)) :
        LET word == SubChars(docu[t.origin][t.chunk].content, t.range)
            looked == IF quirks_opt = <<>> \/ CheckQuirk(quirks_opt[1], word) = <<>>
                      THEN word ELSE CheckQuirk(quirks_opt[1], word)[1]
        IN looked \notin hunspell}

\* the (range, span) pairs the range of a token resolves to
PairsOf(t) == SetOf(FindSpans(docu[t.origin][t.chunk], t.range).map)

\* the missed token a Suggestion of origin o stands for
Stands(sg, o, t) ==
    /\ t.origin = o
    /\ sg.chunk = docu[o][t.chunk]
    /\ [range |-> sg.range, span |-> sg.span] \in PairsOf(t)

\* position of a chunk among the chunks of its origin
UnitOf(o, c) == CHOOSE k \in DOMAIN docu[o] : docu[o][k] = c

\* C15: the Suggestion Set a call returned holds, under each origin, one
\* Suggestion per missed token and pair of its range, none for a token that
\* was found, each with the detector Hunspell and the origin of its unit, in
\* the order of the units and of the tokens.
C15_OneSuggestionPerMiss ==
    (hpc = "returned" /\ result.kind = "Ok") =>
        \A o \in DOMAIN result.set :
            LET list == result.set[o]
            IN /\ \A i \in DOMAIN list :
                    /\ list[i].detector = "Hunspell"
                    /\ list[i].origin = o
                    /\ \E t \in Misses : Stands(list[i], o, t)
               /\ \A t \in Misses : t.origin = o =>
                    \A pr \in PairsOf(t) :
                        Cardinality({i \in DOMAIN list :
                            /\ list[i].chunk = docu[o][t.chunk]
                            /\ list[i].range = pr.range
                            /\ list[i].span = pr.span}) = 1
               /\ \A i, j \in DOMAIN list : i < j =>
                    \/ UnitOf(o, list[i].chunk) < UnitOf(o, list[j].chunk)
                    \/ /\ list[i].chunk = list[j].chunk
                       /\ list[i].range.start < list[j].range.start

\* a returned set whose one Suggestion is for the second unit of an origin,
\* the token of the first unit having been found through the quirk chain
C15_Witness ==
    /\ hpc = "returned"
    /\ result.kind = "Ok"
    /\ quirks_opt = <<<<"Quoted", "MultipicityXsuffix">>>>
    /\ \E o \in DOMAIN docu :
          /\ Len(docu[o]) = 2
          /\ Len(result.set[o]) = 1
          /\ SubChars(docu[o][1].content, Range(0, Len(Catx))) = Catx
          /\ result.set[o][1].chunk = docu[o][2]

\* C19: a call without a quirk chain, whose dictionaries are found, returns
\* a Suggestion Set or an error value: it does not abort.
C19_CompletesWithoutQuirks ==
    (hpc = "returned" /\ quirks_opt = <<>>
        /\ FindMap(config.search_dirs) \in {<<>>, <<"both">>}) =>
        result.kind \in {"Ok", "Err"}

OnOneLine(span) == span.start.line = span.end.line

\* the number of characters from the start of a span to its end, the
\* character at the end counted
ColumnsCovered(span) == span.end.column - span.start.column + 1

Completed ==
    /\ exited.by = "main"
    /\ args.cmd \in {"check", "fix"}
    /\ ret # <<>>

\* the exit value of a completed run: 0 without mistakes, 130 when aborted,
\* the value of --code otherwise
ExitValuesOfRun ==
    Completed =>
        \/ ret[1].kind = "Success" /\ exited.code = 0
        \/ ret[1].kind = "Signal" /\ exited.code = 130
        \/ ret[1].kind = "Custom" /\ exited.code = args.flag_code

\* C17: a completed run exits with 0, the value of --code or 130, and a
\* process that received a termination signal after its handler thread was
\* started and that has ended, has ended with an attempt to restore the
\* terminal and the exit value 130.
C17_SignalEndsWith130 ==
    /\ ExitValuesOfRun
    /\ (exited.by # "none" /\ received # <<>> /\ received[1].handler # "none") =>
          /\ restore # "none"
          /\ exited.by = "handler"
          /\ exited.code = 130
====
